---- MODULE Spec2Model ----
(***************************************************************************)
(* Model of the evdev plugin of AppDaemon                                  *)
(* (src/appdaemon/plugins/evdev/evdevplugin.py).                           *)
(*                                                                         *)
(* The plugin runs on one asyncio event loop: subscribe, unsubscribe, stop *)
(* and call_plugin_service contain no await between their first and last   *)
(* statement, so each is one atomic step.  A handle_device task suspends   *)
(* only at the read of the next raw event, so the loop body for one event  *)
(* is one atomic step as well.                                             *)
(***************************************************************************)
EXTENDS Integers, Sequences, FiniteSets, TLC

\* ------------------------------------------------------------------ bounds
\* Number of handle_device tasks (and InputDevice objects) ever created.
MaxTasks == 2
\* Number of raw events the kernel delivers per device path.
MaxEvents == 1
\* Length of the statically configured `devices` list.
MaxConfig == 1
\* Length of the scripted sequence config["sequence"]["events"].
MaxScript == 2
\* Number of envelopes get_updates hands to AD.state.process_event.
MaxPublished == 2

\* ------------------------------------------------------- the environment
\* Device paths that evdev.InputDevice can open, and one that it cannot.
Openable == {"/dev/input/event0", "/dev/input/event1"}
Missing == {"/dev/missing"}
Paths == Openable \cup Missing

\* The services a caller may name in call_plugin_service.
Services == {"subscribe", "unsubscribe", "publish"}

VARIABLES
    evdev_devices,               \* self.evdev_devices: list of device paths
    evdev_device_to_future_map,  \* self.evdev_device_to_future_map: path -> entry
    evdev_grab,                  \* self.evdev_grab
    stopping,                    \* self.stopping
    futures,                     \* the handle_device tasks, by creation order
    input_devices,               \* the evdev.InputDevice objects, by creation order
    raw,                         \* raw[p]: events the kernel has emitted on path p
    published,                   \* envelopes handed to AD.events.process_event
    called,                      \* the last method or service called on the plugin
    raised,                      \* exception raised by subscribe/unsubscribe/stop in it
    result,                      \* value call_plugin_service returned for it
    config,                      \* self.config: the `sequence` and `loop` keys
    state,                       \* self.state: entity -> last value
    current_event,               \* self.current_event: <<>> while the attribute
                                 \* does not exist, <<n>> when it holds n
    updates_pc,                  \* where the get_updates task stands
    updates_exc,                 \* the exception the get_updates task ended with
    notified,                    \* arguments of the notify_plugin_started call
    state_events,                \* envelopes handed to AD.state.process_event
    snapshot                     \* what the last get_complete_state() returned

playback == <<config, state, current_event, updates_pc, updates_exc,
              notified, state_events, snapshot>>

vars == <<evdev_devices, evdev_device_to_future_map, evdev_grab, stopping,
          futures, input_devices, raw, published, called, raised, result,
          playback>>

registry == <<evdev_devices, evdev_device_to_future_map>>
sessions == <<futures, input_devices>>

\* ----------------------------------------------------------------- helpers
\* Python's `x in list`.
InList(x, list) == \E i \in 1..Len(list) : list[i] = x

\* Python's list.remove(x): drops the first occurrence of x.
RECURSIVE ListRemove(_, _)
ListRemove(list, x) ==
    IF list = <<>> THEN <<>>
    ELSE IF Head(list) = x THEN Tail(list)
    ELSE <<Head(list)>> \o ListRemove(Tail(list), x)

\* A lookup that leaves the key in place (dict.get where dict.pop is meant).
DictGetOnly(dict, key) == dict

\* Python's dict.pop(key, None) leaves the other keys.
DictPop(dict, key) == [k \in (DOMAIN dict) \ {key} |-> dict[k]]

\* All lists over S of length at most n.
ListsUpTo(S, n) == UNION {[1..k -> S] : k \in 0..n}

\* The values call_plugin_service can return.
NoneValue == [kind |-> "None", future |-> 0, text |-> ""]
FutureValue(f) == [kind |-> "future", future |-> f, text |-> ""]
StrValue(s) == [kind |-> "str", future |-> 0, text |-> s]

\* A handle_device task has finished (returned or raised).
Done(f) == futures[f].state \in {"failed", "cancelled"}
\* A handle_device task is still reading or about to read its device.
Live(f) == futures[f].state \in {"created", "running"}

\* ------------------------------------------- playback: data and start state
\* Entities and values of the State Table, and the scripted events.
Entities == {"e1"}
Values == {"OFF", "ON"}

\* A dict with no key (self.state = {} of line 18).
EmptyDict == [e \in {} |-> ""]

\* One entry of config["sequence"]["events"].  `kind` is the first of the
\* keys "state", "event", "disconnect", "connect" the entry holds (the
\* if/elif chain of lines 148-178); entity and newstate are those of
\* event["state"].
StateChange(e, v) == [kind |-> "state", entity |-> e, newstate |-> v]
OtherEvent(k) == [kind |-> k, entity |-> "", newstate |-> ""]
ScriptEvents ==
    {StateChange(e, v) : e \in Entities, v \in Values}
        \cup {OtherEvent(k) : k \in {"event", "disconnect", "connect"}}

\* The part of self.config that get_updates reads: whether the key
\* "sequence" exists, its "events" list, its "loop" key ("absent", "0" or
\* "1") and the top-level "loop" key that line 141 reads ("absent" or "0").
NoSequence ==
    [sequence_present |-> FALSE, events |-> <<>>,
     sequence_loop |-> "absent", loop |-> "absent"]
Configs ==
    {NoSequence} \cup
    [sequence_present : {TRUE}, events : ListsUpTo(ScriptEvents, MaxScript),
     sequence_loop : {"absent", "0", "1"}, loop : {"absent", "0"}]

\* What a caller holds after get_complete_state(): nothing yet, or a dict
\* that is either the table itself (alias) or a copy with its own value.
NoSnapshot == [taken |-> FALSE, alias |-> FALSE, value |-> EmptyDict]

\* An argument of the notify_plugin_started call of line 138: the value a
\* method returned when awaited, or the coroutine object of a call that was
\* not awaited.
Awaited(method) == [awaited |-> TRUE, method |-> method]
Coroutine(method) == [awaited |-> FALSE, method |-> method]

\* The arguments notify_plugin_started was called with: none yet.
NoNotification == [made |-> FALSE, meta |-> Coroutine(""), state |-> Coroutine("")]

\* The playback state after __init__, before get_updates is started.  The
\* attribute current_event is assigned nowhere in the plugin's sources.
PlaybackInit ==
    /\ state = EmptyDict
    /\ current_event = <<>>
    /\ updates_pc = "not_started"
    /\ updates_exc = "none"
    /\ notified = NoNotification
    /\ state_events = <<>>
    /\ snapshot = NoSnapshot

\* ------------------------------------------------------------------- Init
\* The state after __init__: the registry list is the configured `devices`
\* list, the map is empty and no task has been created.
Init ==
    /\ evdev_devices \in ListsUpTo(Paths, MaxConfig)
    /\ evdev_device_to_future_map = [k \in {} |-> NoneValue]
    /\ evdev_grab \in BOOLEAN
    /\ stopping = FALSE
    /\ futures = <<>>
    /\ input_devices = <<>>
    /\ raw = [p \in Openable |-> 0]
    /\ published = <<>>
    /\ called = "__init__"
    /\ raised = "none"
    /\ result = NoneValue
    /\ config = NoSequence
    /\ PlaybackInit

\* -------------------------------------------------------------- subscribe
\* evdev.InputDevice(device): opening a path that does not exist raises.
CanOpen(device) == device \in Openable

\* subscribe without the membership test of line 88: it opens the device
\* and starts a task whether or not the device is already listed.
subscribe_unchecked(device) ==
    IF ~CanOpen(device)
    THEN /\ raised' = "OSError"
         /\ UNCHANGED <<registry, sessions>>
    ELSE /\ Len(futures) < MaxTasks
         /\ input_devices' = Append(input_devices,
                [path |-> device, grabbed |-> FALSE, buffer |-> <<>>])
         /\ futures' = Append(futures,
                [state |-> "created", cancel_requested |-> FALSE, exc |-> "none"])
         /\ evdev_devices' = Append(evdev_devices, device)
         /\ evdev_device_to_future_map' =
                [k \in (DOMAIN evdev_device_to_future_map) \cup {device} |->
                   IF k = device
                   THEN [future |-> Len(futures) + 1,
                         evdev_device |-> Len(input_devices) + 1]
                   ELSE evdev_device_to_future_map[k]]
         /\ raised' = "none"

\* subscribe with line 91 moved before line 89: the path is appended to the
\* list before the device is opened, so a failed open leaves it there.
subscribe_append_first(device) ==
    IF ~InList(device, evdev_devices)
    THEN IF ~CanOpen(device)
         THEN /\ evdev_devices' = Append(evdev_devices, device)
              /\ raised' = "OSError"
              /\ UNCHANGED <<evdev_device_to_future_map, sessions>>
         ELSE /\ Len(futures) < MaxTasks
              /\ input_devices' = Append(input_devices,
                     [path |-> device, grabbed |-> FALSE, buffer |-> <<>>])
              /\ futures' = Append(futures,
                     [state |-> "created", cancel_requested |-> FALSE,
                      exc |-> "none"])
              /\ evdev_devices' = Append(evdev_devices, device)
              /\ evdev_device_to_future_map' =
                     [k \in (DOMAIN evdev_device_to_future_map) \cup {device} |->
                        IF k = device
                        THEN [future |-> Len(futures) + 1,
                              evdev_device |-> Len(input_devices) + 1]
                        ELSE evdev_device_to_future_map[k]]
              /\ raised' = "none"
    ELSE /\ raised' = "none"
         /\ UNCHANGED <<registry, sessions>>

\* subscribe without line 91: the map gets its entry, the list does not.
subscribe_no_append(device) ==
    IF ~InList(device, evdev_devices)
    THEN IF ~CanOpen(device)
         THEN /\ raised' = "OSError"
              /\ UNCHANGED <<registry, sessions>>
         ELSE /\ Len(futures) < MaxTasks
              /\ input_devices' = Append(input_devices,
                     [path |-> device, grabbed |-> FALSE, buffer |-> <<>>])
              /\ futures' = Append(futures,
                     [state |-> "created", cancel_requested |-> FALSE,
                      exc |-> "none"])
              /\ evdev_device_to_future_map' =
                     [k \in (DOMAIN evdev_device_to_future_map) \cup {device} |->
                        IF k = device
                        THEN [future |-> Len(futures) + 1,
                              evdev_device |-> Len(input_devices) + 1]
                        ELSE evdev_device_to_future_map[k]]
              /\ raised' = "none"
              /\ UNCHANGED evdev_devices
    ELSE /\ raised' = "none"
         /\ UNCHANGED <<registry, sessions>>

subscribe(device) ==
    IF ~InList(device, evdev_devices)
    THEN IF ~CanOpen(device)
         THEN /\ raised' = "OSError"
              /\ UNCHANGED <<registry, sessions>>
         ELSE /\ Len(futures) < MaxTasks
              /\ input_devices' = Append(input_devices,
                     [path |-> device, grabbed |-> FALSE, buffer |-> <<>>])
              /\ futures' = Append(futures,
                     [state |-> "created", cancel_requested |-> FALSE,
                      exc |-> "none"])
              /\ evdev_devices' = Append(evdev_devices, device)
              /\ evdev_device_to_future_map' =
                     [k \in (DOMAIN evdev_device_to_future_map) \cup {device} |->
                        IF k = device
                        THEN [future |-> Len(futures) + 1,
                              evdev_device |-> Len(input_devices) + 1]
                        ELSE evdev_device_to_future_map[k]]
              /\ raised' = "none"
    ELSE /\ raised' = "none"
         /\ UNCHANGED <<registry, sessions>>

\* The value subscribe returns when it does not raise: the new future, or
\* None when the device was already in the list.
subscribe_return(device) ==
    IF ~InList(device, evdev_devices)
    THEN FutureValue(Len(futures) + 1)
    ELSE NoneValue

\* ------------------------------------------------------------ unsubscribe
\* The keys of the entry subscribe stores in the map (line 92).
EntryKeys == {"future", "evdev_device"}

\* asyncio's Task.cancel(): requests cancellation of a task that is not done.
cancel(fs, f) ==
    IF fs[f].state \in {"created", "running"}
    THEN [fs EXCEPT ![f].cancel_requested = TRUE]
    ELSE fs

\* The exception InputDevice.ungrab() raises: releasing a grab that is not
\* held is rejected by the kernel (EINVAL).
ungrab_raises(devs, i) == IF devs[i].grabbed THEN "none" ELSE "OSError"
\* InputDevice.ungrab(): clears the exclusive-access flag.
ungrab(devs, i) == [devs EXCEPT ![i].grabbed = FALSE]

unsubscribe(device) ==
    IF InList(device, evdev_devices)
    THEN /\ evdev_devices' = ListRemove(evdev_devices, device)
         /\ evdev_device_to_future_map' = DictPop(evdev_device_to_future_map, device)
         /\ IF device \in DOMAIN evdev_device_to_future_map
            THEN LET future_and_evdev == evdev_device_to_future_map[device] IN
                 \* line 103 reads the key 'my_future'; line 92 stored 'future'
                 IF "my_future" \notin EntryKeys
                 THEN /\ raised' = "KeyError"
                      /\ UNCHANGED sessions
                 ELSE /\ futures' = cancel(futures, future_and_evdev.future)
                      /\ IF evdev_grab
                         THEN /\ input_devices' =
                                    ungrab(input_devices, future_and_evdev.evdev_device)
                              /\ raised' =
                                    ungrab_raises(input_devices, future_and_evdev.evdev_device)
                         ELSE /\ raised' = "none"
                              /\ UNCHANGED input_devices
            ELSE /\ raised' = "none"
                 /\ UNCHANGED sessions
    ELSE /\ raised' = "none"
         /\ UNCHANGED <<registry, sessions>>

\* ------------------------------------------------------------------- stop
\* stop(): sets the flag, then, when grab is configured, calls ungrab() on
\* every element of evdev_devices.  The elements are path strings, which
\* have no ungrab attribute, so the first iteration raises.
stop ==
    /\ ~stopping
    /\ stopping' = TRUE
    /\ raised' = IF evdev_grab /\ evdev_devices # <<>>
                 THEN "AttributeError" ELSE "none"
    /\ called' = "stop"
    /\ result' = NoneValue
    /\ UNCHANGED <<registry, sessions, evdev_grab, raw, published>>
    /\ UNCHANGED playback

\* ---------------------------------------------------- call_plugin_service
\* self.config['type'] of a loaded evdev plugin.
ConfigType == "evdev"

\* The string the except clause (lines 71-80) returns for an exception.
ErrorValue(e) == IF ConfigType = "evdev" THEN StrValue(e) ELSE StrValue("ERR")

call_plugin_service(service, device) ==
    /\ called' = service
    /\ CASE service = "subscribe" ->
              /\ subscribe(device)
              /\ result' = IF raised' = "none"
                           THEN subscribe_return(device)
                           ELSE ErrorValue(raised')
         [] service = "unsubscribe" ->
              /\ unsubscribe(device)
              /\ result' = IF raised' = "none"
                           THEN NoneValue
                           ELSE ErrorValue(raised')
         [] OTHER ->
              /\ raised' = "none"
              /\ result' = StrValue("ERR")
              /\ UNCHANGED <<registry, sessions>>
    /\ UNCHANGED <<evdev_grab, stopping, raw, published>>
    /\ UNCHANGED playback

\* ---------------------------------------------------------- handle_device
\* Names bound where the loop body of handle_device runs: its parameters,
\* the loop variable, and the module's imports and class.
NamesInScope == {"self", "device", "event", "data", "asyncio", "copy",
                 "evdev", "AppDaemon", "PluginBase", "EvdevPlugin"}

\* Whether InputDevice i receives the events of its path: a grab held by
\* another descriptor on the same path takes them all.
Receives(i) ==
    \A j \in 1..Len(input_devices) :
        (j # i /\ input_devices[j].path = input_devices[i].path)
            => ~input_devices[j].grabbed

\* The kernel emits one raw event on a path: it is queued on every open
\* InputDevice of that path whose reader has not finished.  Events on a path
\* that no reader has open are not visible to the plugin and are left out.
device_event(p) ==
    /\ raw[p] < MaxEvents
    /\ \E i \in 1..Len(input_devices) :
          input_devices[i].path = p /\ Live(i) /\ Receives(i)
    /\ raw' = [raw EXCEPT ![p] = @ + 1]
    /\ input_devices' =
         [i \in 1..Len(input_devices) |->
            IF input_devices[i].path = p /\ Live(i) /\ Receives(i)
            THEN [input_devices[i] EXCEPT !.buffer = Append(@, raw[p] + 1)]
            ELSE input_devices[i]]
    /\ UNCHANGED <<registry, futures, evdev_grab, stopping, published,
                   called, raised, result>>
    /\ UNCHANGED playback

\* The event loop runs a newly created task up to its first await.
handle_device_start(f) ==
    /\ futures[f].state = "created"
    /\ futures' = [futures EXCEPT ![f].state = "running"]
    /\ UNCHANGED <<registry, input_devices, evdev_grab, stopping, raw,
                   published, called, raised, result>>
    /\ UNCHANGED playback

\* One iteration of the read loop (lines 113-116).  Line 115 evaluates the
\* unbound name `msg`, which raises NameError; it is not a CancelledError,
\* so the task ends with it and line 116 (create_task(send_ad_event)) is
\* not reached.  (Where the logger emits INFO records, the keyword `sep` of
\* line 114 raises TypeError one line earlier, to the same effect; the two
\* are not told apart here.)
handle_device_event(f) ==
    /\ futures[f].state = "running"
    /\ input_devices[f].buffer # <<>>
    /\ input_devices' = [input_devices EXCEPT ![f].buffer = Tail(@)]
    /\ IF "msg" \notin NamesInScope
       THEN /\ futures' = [futures EXCEPT ![f].state = "failed",
                                          ![f].exc = "NameError"]
            /\ UNCHANGED published
       ELSE /\ published' = Append(published,
                  [device |-> input_devices[f].path,
                   event |-> Head(input_devices[f].buffer)])
            /\ UNCHANGED futures
    /\ UNCHANGED <<registry, evdev_grab, stopping, raw, called, raised, result>>
    /\ UNCHANGED playback

\* An I/O error that brings down every running reader, as it would if the
\* tasks shared one read loop.
handle_device_io_error_all(f) ==
    /\ futures[f].state = "running"
    /\ futures' = [g \in 1..Len(futures) |->
                     IF futures[g].state = "running"
                     THEN [futures[g] EXCEPT !.state = "failed",
                                             !.exc = "OSError"]
                     ELSE futures[g]]
    /\ UNCHANGED <<registry, input_devices, evdev_grab, stopping, raw,
                   published, called, raised, result>>
    /\ UNCHANGED playback

\* The read of the next event fails with a device I/O error (the device
\* was unplugged): OSError is not caught by line 117, so the task ends.
handle_device_io_error(f) ==
    /\ futures[f].state = "running"
    /\ futures' = [futures EXCEPT ![f].state = "failed", ![f].exc = "OSError"]
    /\ UNCHANGED <<registry, input_devices, evdev_grab, stopping, raw,
                   published, called, raised, result>>
    /\ UNCHANGED playback

\* ------------------------------------------------- State Table (lines 123-125, 186-188)
\* Python's dict[key] = value.
DictSet(dict, key, value) ==
    [k \in (DOMAIN dict) \cup {key} |-> IF k = key THEN value ELSE dict[k]]

\* `return self.state` in place of line 125: the caller holds the table itself.
state_alias == [taken |-> TRUE, alias |-> TRUE, value |-> state]

\* copy.deepcopy(self.state): a dict of its own, equal in value.
deepcopy_state == [taken |-> TRUE, alias |-> FALSE, value |-> state]

\* What the holder of a returned snapshot reads in it now.
SnapshotView == IF snapshot.alias THEN state ELSE snapshot.value

set_plugin_state(entity, value) ==
    /\ state' = DictSet(state, entity, value)
    /\ UNCHANGED <<config, current_event, updates_pc, updates_exc, notified,
                   state_events, snapshot>>
    /\ UNCHANGED <<registry, sessions, evdev_grab, stopping, raw, published,
                   called, raised, result>>

\* The host awaits get_complete_state() and keeps what it returns.
get_complete_state ==
    /\ snapshot' = deepcopy_state
    /\ snapshot' # snapshot
    /\ UNCHANGED <<config, state, current_event, updates_pc, updates_exc,
                   notified, state_events>>
    /\ UNCHANGED <<registry, sessions, evdev_grab, stopping, raw, published,
                   called, raised, result>>

\* ------------------------------------------------ get_updates (lines 137-184)
\* The get_updates task runs from one await to the next in one step.  Its
\* positions: not_started, await_notify (line 138), loop (line 139, about to
\* test `while not self.stopping`), sleep (line 147), await_process_event
\* (lines 164, 172), await_connect (line 180), parked (line 143), returned,
\* failed.  The position `loop` is not an await: the step that reaches it
\* and the test of line 139 run back to back, and are split here only so
\* that each step is one block of the source.

\* Line 138: get_metadata() and get_complete_state() are called without
\* await, so notify_plugin_started receives two coroutine objects.
get_updates_start ==
    /\ updates_pc = "not_started"
    /\ notified' = [made |-> TRUE,
                    meta |-> Coroutine("get_metadata"),
                    state |-> Coroutine("get_complete_state")]
    /\ updates_pc' = "await_notify"
    /\ UNCHANGED <<config, state, current_event, updates_exc, state_events,
                   snapshot>>
    /\ UNCHANGED <<registry, sessions, evdev_grab, stopping, raw, published,
                   called, raised, result>>

\* notify_plugin_started returns.
get_updates_notified ==
    /\ updates_pc = "await_notify"
    /\ updates_pc' = "loop"
    /\ UNCHANGED <<config, state, current_event, updates_exc, notified,
                   state_events, snapshot>>
    /\ UNCHANGED <<registry, sessions, evdev_grab, stopping, raw, published,
                   called, raised, result>>

\* Lines 139-147 without the operand `or "loop" not in self.config["sequence"]`
\* of line 141: a sequence without a "loop" key no longer parks, and line 146
\* indexes past the end.
LoopTest_no_park(cur) ==
    IF cur >= Len(config.events)
    THEN IF config.sequence_loop # "absent"
         THEN IF config.loop = "absent"
              THEN [pc |-> "failed", exc |-> "KeyError"]
              ELSE IF config.loop = "0"
              THEN [pc |-> "parked", exc |-> "none"]
              ELSE [pc |-> "failed", exc |-> "IndexError"]
         ELSE [pc |-> "failed", exc |-> "IndexError"]
    ELSE [pc |-> "sleep", exc |-> "none"]

\* The outcome of lines 139-147 with the cursor at cur: the next position
\* and the exception, if any.
LoopTest(cur) ==
    IF cur >= Len(config.events)
    THEN IF config.sequence_loop # "absent"
         THEN \* "loop" in config["sequence"]: line 141 reads self.config["loop"]
              IF config.loop = "absent"
              THEN [pc |-> "failed", exc |-> "KeyError"]
              ELSE IF config.loop = "0"
              THEN [pc |-> "parked", exc |-> "none"]
              ELSE \* neither operand of `or` holds: line 146 indexes past the end
                   [pc |-> "failed", exc |-> "IndexError"]
         ELSE [pc |-> "parked", exc |-> "none"]
    ELSE [pc |-> "sleep", exc |-> "none"]

\* Lines 139-147: the while test, the park test and the start of the sleep.
get_updates_loop ==
    /\ updates_pc = "loop"
    /\ LET out ==
            IF stopping
            THEN [pc |-> "returned", exc |-> "none"]
            ELSE IF current_event = <<>>
            THEN [pc |-> "failed", exc |-> "AttributeError"]
            ELSE IF ~config.sequence_present
            THEN [pc |-> "failed", exc |-> "KeyError"]
            ELSE LoopTest(current_event[1])
       IN /\ updates_pc' = out.pc
          /\ updates_exc' = out.exc
    /\ UNCHANGED <<config, state, current_event, notified, state_events, snapshot>>
    /\ UNCHANGED <<registry, sessions, evdev_grab, stopping, raw, published,
                   called, raised, result>>

\* Lines 142-144: the parked task wakes from sleep(1), finds stopping set
\* and returns.  (While stopping is unset it sleeps again: no change.)
get_updates_park_poll ==
    /\ updates_pc = "parked"
    /\ stopping
    /\ updates_pc' = "returned"
    /\ UNCHANGED <<config, state, current_event, updates_exc, notified,
                   state_events, snapshot>>
    /\ UNCHANGED <<registry, sessions, evdev_grab, stopping, raw, published,
                   called, raised, result>>

\* Lines 182-184: the cursor after one more event.
Advance(cur) ==
    IF cur + 1 >= Len(config.events) /\ config.sequence_loop = "1"
    THEN 0
    ELSE cur + 1

\* The envelope of lines 153-162 with old_state read after the write of line
\* 152 (line 150 moved below it).
StateChanged_read_after_write(entity, new_state, old_state) ==
    [event_type |-> "state_changed", entity_id |-> entity,
     new_state |-> new_state, old_state |-> new_state]

\* The envelope of lines 153-162.
StateChanged(entity, new_state, old_state) ==
    [event_type |-> "state_changed", entity_id |-> entity,
     new_state |-> new_state, old_state |-> old_state]
\* The envelope of lines 166-170.
Generic == [event_type |-> "event", entity_id |-> "",
            new_state |-> "", old_state |-> ""]

\* Lines 147-180 with the read of line 150 replaced by
\* self.state.get(entity): an unknown entity no longer raises, the table is
\* written and an envelope with old_state None is handed on.
get_updates_dispatch_get ==
    /\ updates_pc = "sleep"
    /\ LET event == config.events[current_event[1] + 1] IN
       CASE event.kind = "state" ->
              /\ Len(state_events) < MaxPublished
              /\ state' = DictSet(state, event.entity, event.newstate)
              /\ state_events' = Append(state_events,
                     StateChanged(event.entity, event.newstate,
                                  IF event.entity \in DOMAIN state
                                  THEN state[event.entity]
                                  ELSE "None"))
              /\ updates_pc' = "await_process_event"
              /\ UNCHANGED <<updates_exc, current_event>>
         [] event.kind = "event" ->
              /\ Len(state_events) < MaxPublished
              /\ state_events' = Append(state_events, Generic)
              /\ updates_pc' = "await_process_event"
              /\ UNCHANGED <<state, updates_exc, current_event>>
         [] event.kind = "disconnect" ->
              /\ current_event' = <<Advance(current_event[1])>>
              /\ updates_pc' = "loop"
              /\ UNCHANGED <<state, state_events, updates_exc>>
         [] OTHER ->
              \E accepted \in BOOLEAN :
                 /\ updates_pc' = IF accepted THEN "await_connect" ELSE "failed"
                 /\ updates_exc' = IF accepted THEN "none" ELSE "TypeError"
                 /\ UNCHANGED <<state, state_events, current_event>>
    /\ UNCHANGED <<config, notified, snapshot>>
    /\ UNCHANGED <<registry, sessions, evdev_grab, stopping, raw, published,
                   called, raised, result>>

\* Lines 147-180: the sleep of the event's offset ends and the event is
\* dispatched, up to the next await.  stopping is not read here.
get_updates_dispatch ==
    /\ updates_pc = "sleep"
    /\ LET event == config.events[current_event[1] + 1] IN
       CASE event.kind = "state" ->
              IF event.entity \notin DOMAIN state
              THEN \* line 150: self.state[entity] raises KeyError
                   /\ updates_pc' = "failed"
                   /\ updates_exc' = "KeyError"
                   /\ UNCHANGED <<state, state_events, current_event>>
              ELSE /\ Len(state_events) < MaxPublished
                   /\ state' = DictSet(state, event.entity, event.newstate)
                   /\ state_events' = Append(state_events,
                          StateChanged(event.entity, event.newstate,
                                       state[event.entity]))
                   /\ updates_pc' = "await_process_event"
                   /\ UNCHANGED <<updates_exc, current_event>>
         [] event.kind = "event" ->
              /\ Len(state_events) < MaxPublished
              /\ state_events' = Append(state_events, Generic)
              /\ updates_pc' = "await_process_event"
              /\ UNCHANGED <<state, updates_exc, current_event>>
         [] event.kind = "disconnect" ->
              \* notify_plugin_stopped is not awaited: lines 182-184 follow
              /\ current_event' = <<Advance(current_event[1])>>
              /\ updates_pc' = "loop"
              /\ UNCHANGED <<state, state_events, updates_exc>>
         [] OTHER ->
              \* connect: line 180 passes one argument to the function that
              \* line 138 calls with five; whether the host accepts that
              \* call is not decided by the plugin's sources
              \E accepted \in BOOLEAN :
                 /\ updates_pc' = IF accepted THEN "await_connect" ELSE "failed"
                 /\ updates_exc' = IF accepted THEN "none" ELSE "TypeError"
                 /\ UNCHANGED <<state, state_events, current_event>>
    /\ UNCHANGED <<config, notified, snapshot>>
    /\ UNCHANGED <<registry, sessions, evdev_grab, stopping, raw, published,
                   called, raised, result>>

\* Lines 182-184 after the await of process_event or of the connect
\* notification returns.
get_updates_advance ==
    /\ updates_pc \in {"await_process_event", "await_connect"}
    /\ current_event' = <<Advance(current_event[1])>>
    /\ updates_pc' = "loop"
    /\ UNCHANGED <<config, state, updates_exc, notified, state_events, snapshot>>
    /\ UNCHANGED <<registry, sessions, evdev_grab, stopping, raw, published,
                   called, raised, result>>

\* ------------------------------------------------------------------- Next
CallService == \E s \in Services, d \in Paths : call_plugin_service(s, d)
Stop == stop
DeviceEvent == \E p \in Openable : device_event(p)
TaskStart == \E f \in 1..Len(futures) : handle_device_start(f)
TaskEvent == \E f \in 1..Len(futures) : handle_device_event(f)
TaskIOError == \E f \in 1..Len(futures) : handle_device_io_error(f)

Next ==
    \/ CallService
    \/ Stop
    \/ DeviceEvent
    \/ TaskStart
    \/ TaskEvent
    \/ TaskIOError

\* ---------------------------------------------------------------- playback
\* The plugin with its get_updates task: the configured sequence, whether
\* the attribute current_event exists (__init__ does not assign it; the
\* base class constructor called at line 12 is not among the sources, so
\* both the absent attribute and a cursor at zero are start states), the
\* State Table calls of the host, and stop().
InitPlayback ==
    /\ evdev_devices = <<>>
    /\ evdev_device_to_future_map = [k \in {} |-> NoneValue]
    /\ evdev_grab = TRUE
    /\ stopping = FALSE
    /\ futures = <<>>
    /\ input_devices = <<>>
    /\ raw = [p \in Openable |-> 0]
    /\ published = <<>>
    /\ called = "__init__"
    /\ raised = "none"
    /\ result = NoneValue
    /\ config \in Configs
    /\ state = EmptyDict
    /\ current_event \in {<<>>, <<0>>}
    /\ updates_pc = "not_started"
    /\ updates_exc = "none"
    /\ notified = NoNotification
    /\ state_events = <<>>
    /\ snapshot = NoSnapshot

SetState == \E e \in Entities, v \in Values : set_plugin_state(e, v)
GetCompleteState == get_complete_state
UpdatesStart == get_updates_start
UpdatesNotified == get_updates_notified
UpdatesLoop == get_updates_loop
UpdatesParkPoll == get_updates_park_poll
UpdatesDispatch == get_updates_dispatch
UpdatesAdvance == get_updates_advance

NextPlayback ==
    \/ SetState
    \/ GetCompleteState
    \/ UpdatesStart
    \/ UpdatesNotified
    \/ UpdatesLoop
    \/ UpdatesParkPoll
    \/ UpdatesDispatch
    \/ UpdatesAdvance
    \/ Stop

SpecPlayback == InitPlayback /\ [][NextPlayback]_vars

\* ------------------------------------------------- playback beside sessions
\* The get_updates task and device sessions side by side: one looping
\* script of two state changes, and the service calls on the registry.
LoopingScript ==
    [sequence_present |-> TRUE,
     events |-> <<StateChange("e1", "ON"), StateChange("e1", "OFF")>>,
     sequence_loop |-> "1", loop |-> "absent"]

InitSessions ==
    /\ evdev_devices = <<>>
    /\ evdev_device_to_future_map = [k \in {} |-> NoneValue]
    /\ evdev_grab = TRUE
    /\ stopping = FALSE
    /\ futures = <<>>
    /\ input_devices = <<>>
    /\ raw = [p \in Openable |-> 0]
    /\ published = <<>>
    /\ called = "__init__"
    /\ raised = "none"
    /\ result = NoneValue
    /\ config = LoopingScript
    /\ state = EmptyDict
    /\ current_event \in {<<>>, <<0>>}
    /\ updates_pc = "not_started"
    /\ updates_exc = "none"
    /\ notified = NoNotification
    /\ state_events = <<>>
    /\ snapshot = NoSnapshot

NextSessions ==
    \/ SetState
    \/ UpdatesStart
    \/ UpdatesNotified
    \/ UpdatesLoop
    \/ UpdatesDispatch
    \/ UpdatesAdvance
    \/ CallService
    \/ TaskStart
    \/ TaskIOError

SpecSessions == InitSessions /\ [][NextSessions]_vars

\* ------------------------------------------------------------- the claims
\* The read tasks of path d that are live and have not been asked to stop.
LiveSessions(d) ==
    {f \in 1..Len(futures) :
        input_devices[f].path = d /\ Live(f) /\ ~futures[f].cancel_requested}

\* C1: at most one live device session (running handle_device task) exists
\* per device identifier in every reachable state.
C1_AtMostOneLiveSession ==
    \A d \in Paths : Cardinality(LiveSessions(d)) <= 1

\* C2: unsubscribe(d) on a subscribed device cancels the very task that
\* subscribe(d) stored for d: whenever the entry of d leaves the map while
\* its task is still live, that task has received a cancellation request.
C2_UnsubscribeCancelsStoredTask ==
    [][\A d \in Paths :
         (/\ d \in DOMAIN evdev_device_to_future_map
          /\ d \notin DOMAIN evdev_device_to_future_map'
          /\ Live(evdev_device_to_future_map[d].future))
         => futures'[evdev_device_to_future_map[d].future].cancel_requested]_vars

\* C3: unsubscribe(d) of a device that subscribe(d) registered returns
\* without error, and a further unsubscribe(d), made after a subscribe(d)
\* has succeeded and while d is absent from the registry, fails with
\* NotSubscribed.
C3_UnsubscribeOnceThenNotSubscribed ==
    [][\A d \in Paths :
         call_plugin_service("unsubscribe", d)
         => /\ (d \in DOMAIN evdev_device_to_future_map => raised' = "none")
            /\ ((/\ \E f \in 1..Len(futures) : input_devices[f].path = d
                 /\ ~InList(d, evdev_devices))
                => raised' = "NotSubscribed")]_vars

\* C4 (as claimed): subscribe(d) of a device already in the registry fails
\* with AlreadySubscribed, and changes neither the registry nor the sessions.
C4_AlreadySubscribedFails ==
    [][\A d \in Paths :
         (call_plugin_service("subscribe", d) /\ InList(d, evdev_devices))
         => /\ raised' = "AlreadySubscribed"
            /\ UNCHANGED <<registry, sessions>>]_vars

\* C4 (amended): subscribe(d) of a device already in the registry does not
\* fail: it returns None without raising, opens no device, starts no task
\* and leaves the registry unchanged.
C4_AlreadySubscribedReturnsNone ==
    [][\A d \in Paths :
         (call_plugin_service("subscribe", d) /\ InList(d, evdev_devices))
         => /\ raised' = "none"
            /\ result' = NoneValue
            /\ UNCHANGED <<registry, sessions>>]_vars

\* A subscribe call on an already listed device has returned None.
C4_Witness ==
    /\ called = "subscribe"
    /\ result = NoneValue
    /\ raised = "none"

\* C5: a device identifier is in the registry if and only if a session for
\* it is running or awaiting the acknowledgment of its cancellation.
C5_RegistryIffSession ==
    \A d \in Paths :
        InList(d, evdev_devices)
            <=> \E f \in 1..Len(futures) : input_devices[f].path = d /\ Live(f)

C7_StopCancelsAll ==
    [][stop =>
         /\ raised' = "none"
         /\ \A f \in 1..Len(futures) : Live(f) => futures'[f].cancel_requested
         /\ \A i \in 1..Len(input_devices) : ~input_devices'[i].grabbed]_vars

C9_OpenErrorLeavesRegistry ==
    [][\A d \in Paths :
         (/\ call_plugin_service("subscribe", d)
          /\ ~InList(d, evdev_devices)
          /\ ~CanOpen(d))
         => /\ raised' = "OSError"
            /\ result' = ErrorValue("OSError")
            /\ UNCHANGED <<registry, sessions>>]_vars

\* A subscribe call has failed on the open of its device.
C9_Witness ==
    /\ called = "subscribe"
    /\ raised = "OSError"
    /\ result.kind = "str"

\* C10: with grab enabled, every registered session holds the exclusive
\* grab of its device.
C10_RegisteredSessionHoldsGrab ==
    evdev_grab =>
        \A d \in DOMAIN evdev_device_to_future_map :
            input_devices[evdev_device_to_future_map[d].evdev_device].grabbed

\* The cursor of get_updates exists and stands at n.
CursorAt(n) == current_event = <<n>>

\* C11: the host is notified that the plugin started, with the plugin's
\* metadata and a snapshot of the State Table (the values the two methods
\* return, not pending calls), before the first scripted event is handed on.
C11_HandshakeWithMetadataAndSnapshot ==
    /\ (~notified.made => state_events = <<>>)
    /\ (notified.made => notified.meta.awaited /\ notified.state.awaited)

\* A sequence of two state changes of one entity with loop = 1.
TwoChangesLooping ==
    /\ config.sequence_present
    /\ Len(config.events) = 2
    /\ \A i \in 1..2 : config.events[i].kind = "state"
    /\ config.sequence_loop = "1"

\* C12: with two state changes and loop = 1 the sequencer goes round until
\* stopped: each time it tests the head of its loop unstopped it goes on to
\* the delay of the event under a cursor inside the sequence; it neither
\* parks nor ends.
C12_LoopingRepeats ==
    [][(TwoChangesLooping /\ ~stopping /\ get_updates_loop)
         => /\ updates_pc' = "sleep"
            /\ \E n \in 0..1 : CursorAt(n)]_vars

EndToEndConfig ==
    /\ config.sequence_present
    /\ config.events = <<StateChange("e1", "ON")>>
    /\ config.sequence_loop = "0"
    /\ config.loop = "absent"

\* C14: with that configuration the sequencer hands on exactly one
\* state_changed envelope with new_state ON, and then parks without error.
C14_OneEnvelopeThenPark ==
    [][(EndToEndConfig /\ ~stopping /\ Len(state_events) = 1
          /\ get_updates_loop)
         => /\ updates_pc' = "parked"
            /\ state_events[1].event_type = "state_changed"
            /\ state_events[1].new_state = "ON"]_vars

C16_SnapshotIsolation ==
    [][/\ get_complete_state => SnapshotView' = state
       /\ (snapshot.taken /\ snapshot' = snapshot) => SnapshotView' = SnapshotView
       /\ \A e \in Entities, v \in Values :
             set_plugin_state(e, v) => (e \in DOMAIN state' /\ state'[e] = v)]_vars

\* A snapshot was taken of a table that held e1, and e1 has changed since.
C16_Witness ==
    /\ snapshot.taken
    /\ "e1" \in DOMAIN SnapshotView
    /\ SnapshotView["e1"] # state["e1"]

C18_IOErrorEndsOnlyThatSession ==
    [][/\ \A f \in 1..Len(futures) :
            handle_device_io_error(f)
              => /\ futures'[f].state = "failed"
                 /\ futures'[f].exc = "OSError"
                 /\ Len(futures') = Len(futures)
                 /\ \A g \in 1..Len(futures) : g # f => futures'[g] = futures[g]
                 /\ UNCHANGED <<registry, input_devices>>
                 /\ UNCHANGED playback
       /\ (Len(futures') # Len(futures) \/ Len(input_devices') # Len(input_devices))
            => \E d \in Paths : call_plugin_service("subscribe", d)]_vars

\* One session has ended with an I/O error and is still registered, another
\* reads on, and the sequencer is between two events.
C18_Witness ==
    /\ \E f, g \in 1..Len(futures) :
          /\ futures[f].state = "failed"
          /\ futures[f].exc = "OSError"
          /\ InList(input_devices[f].path, evdev_devices)
          /\ futures[g].state = "running"
    /\ updates_pc = "sleep"
    /\ state_events # <<>>

Count(d, list) == Cardinality({i \in 1..Len(list) : list[i] = d})

\* C20: after every step every key of evdev_device_to_future_map is an
\* element of evdev_devices, and no step makes an identifier occur in
\* evdev_devices more than once unless it already occurred as often.
C20_MapKeysListedNoDuplicates ==
    [][/\ \A d \in DOMAIN evdev_device_to_future_map' : InList(d, evdev_devices')
       /\ \A d \in Paths :
             Count(d, evdev_devices') <=
                 IF Count(d, evdev_devices) = 0 THEN 1
                 ELSE Count(d, evdev_devices)]_vars

\* The map holds an entry and the last call ended in an error.
C20_Witness ==
    /\ DOMAIN evdev_device_to_future_map # {}
    /\ raised # "none"
    /\ called \in {"subscribe", "unsubscribe"}

Spec == Init /\ [][Next]_vars
====
